---- MODULE Spec2Model ----
(***************************************************************************)
(* Model of the batch ingestion pipeline of src/src/main.rs (index_data,   *)
(* called from main) as a state machine.  One action models one pass of    *)
(* the code through a loop body or a loop exit:                            *)
(*   Discover / DiscoverPanic   find_files(..).unwrap()           (l.112)  *)
(*   OpenFail / OpenOk          File::open of the next file    (l.113-129) *)
(*   RowParseError              reader.records() yields Err    (l.131-140) *)
(*   RowAddFail                 writer.add_document(doc)?      (l.142-187) *)
(*   RowIndexed                 one complete row iteration     (l.131-221) *)
(*   EndOfFile                  final commit and the report    (l.223-242) *)
(*   Finish                     Ok(()) after the last file     (l.244)     *)
(* The index engine (tantivy) is outside the repository.  Its writer is    *)
(* modelled by what the call sites rely on: add_document appends to the    *)
(* writer's uncommitted documents, a successful commit moves them to the   *)
(* store.  What a FAILED commit leaves in the writer is not decided by any *)
(* code of the repository (index_data calls no rollback), so it is a       *)
(* nondeterministic choice: the uncommitted documents are kept or dropped. *)
(***************************************************************************)
EXTENDS Integers, Sequences, FiniteSets, TLC

\* Bounds of the model.  bulk_size is 1000 in the source (main.rs:108); the
\* model scales it down so that checkpoints are reached within MaxRows rows.
bulk_size == 2
MaxFiles == 2
MaxRows == 5

VARIABLES
    index_writer,       \* "Ok" or "Err": the Result main passes in (l.294, l.102)
    pc,                 \* position of index_data
    files,              \* number of files find_files returned (l.112)
    fileIdx,            \* number of files the for loop has taken so far (l.113)
    counter,            \* let mut counter: i32 = 0 (l.126)
    exception_counter,  \* let mut exception_counter: i32 = 0 (l.127)
    pending,            \* documents added to the writer and not committed
    store,              \* documents committed in the index
    report,             \* what l.235-241 printed for the last file that ended
    \* History of the run, recorded to state the properties.
    rowsRead,           \* rows the reader has yielded for the current file
    totalRows,          \* rows the reader has yielded in the whole run
    parseFails,         \* rows of the current file whose read failed
    commitFails,        \* commits of the current file that failed
    commits,            \* commits invoked for the current file
    added,              \* add_document calls of the current file that succeeded
    processed,          \* rows mapped and counted in the whole run
    failedDocs,         \* documents that were uncommitted in a failed commit
    sinceCommit,        \* documents handed over since the last successful commit
    openFails,          \* files whose open failed
    lastStep,           \* the action that produced this state
    lastCommit,         \* result of the commit that action invoked, or "none"
    \* The mapping of one record to a document (l.142-183).
    mpc,                \* "idle", "read" (a record is at hand) or "mapped"
    record,             \* the csv record: its cells, column 0 first
    document,           \* the Document: the <<field, value>> pairs added to it
    \* Two runs of the row loop over the same input, one committing every
    \* document and one every bulk_size documents.
    bpc,                \* "idle", "files", "rows" or "done"
    b_files,            \* number of files discovered
    b_fileIdx,          \* files taken so far
    b_rowsRead,         \* rows read from the current file
    b_totalRows,        \* rows read in the whole run
    b_one,              \* counter, exception_counter, writer and store, batch 1
    b_bulk,             \* the same with batch bulk_size
    \* The commands (the main functions) and the read side of the index.
    program,            \* "build": main.rs; "query": main_query_index.rs
    qpc,                \* position of the command's main
    index_present,      \* an index exists at the index path
    searcher,           \* the documents of the Searcher the command holds
    num_docs,           \* what searcher.num_docs() returned, -1 before
    scores,             \* relevance of each committed document to the query
    q_limit,            \* the limit query_index was called with
    q_fail,             \* the step of query_index that fails, or "none"
    q_result            \* what query_index returned

vars == <<index_writer, pc, files, fileIdx, counter, exception_counter, pending,
          store, report, rowsRead, totalRows, parseFails, commitFails, commits,
          added, processed, failedDocs, sinceCommit, openFails, lastStep,
          lastCommit>>

mapVars == <<mpc, record, document>>

\* The variables index_data does not touch.
batchVars == <<bpc, b_files, b_fileIdx, b_rowsRead, b_totalRows, b_one, b_bulk>>

queryVars == <<program, qpc, index_present, searcher, num_docs, scores,
               q_limit, q_fail, q_result>>

aux == <<mapVars, batchVars, queryVars>>

Range(s) == {s[i] : i \in 1..Len(s)}

NoReport == [file |-> 0, processed |-> 0, exceptions |-> 0, percentage |-> "none"]

\* Outcomes of writer.commit(): success, or a failure after which the engine
\* still holds the uncommitted documents, or a failure that lost them.
CommitResults == {"ok", "fail_keep", "fail_drop"}

\* writer.add_document(doc) on success (l.187).
add_document(w, doc) == Append(w, doc)

\* writer.commit() (l.208, l.227): the writer's uncommitted documents and the
\* store afterwards.
commit_KeepsPending(w, s, result) ==
    IF result = "ok"
    THEN [pending |-> w, store |-> s \o w]
    ELSE [pending |-> IF result = "fail_keep" THEN w ELSE <<>>, store |-> s]
commit(w, s, result) ==
    IF result = "ok"
    THEN [pending |-> <<>>, store |-> s \o w]
    ELSE [pending |-> IF result = "fail_keep" THEN w ELSE <<>>, store |-> s]

\* counter += 1 (l.196).
counter_increment_Wrapping(c) == (c + 1) % bulk_size
counter_increment(c) == c + 1

\* if counter % bulk_size == 0 (l.199).
AtCheckpoint_OffByOne(c) == c % bulk_size = 1
AtCheckpoint(c) == c % bulk_size = 0

\* (exception_counter as f32 / counter as f32) * 100.0 (l.236).  IEEE division:
\* 0/0 is NaN, x/0 with x > 0 is +inf, and NaN and inf times 100 stay so.  A
\* finite quotient is kept as the exact fraction num/den (rounding to f32 is
\* not modelled).
exception_percentage(e, c) ==
    IF c = 0
    THEN (IF e = 0 THEN "NaN" ELSE "inf")
    ELSE [num |-> 100 * e, den |-> c]

\* No record is being mapped.
MapIdle ==
    /\ mpc = "idle"
    /\ record = <<>>
    /\ document = <<>>

\* A run of the row loop before anything was read.
NewRun == [counter |-> 0, exception_counter |-> 0, pending |-> <<>>, store |-> <<>>]

BatchIdle ==
    /\ bpc = "idle"
    /\ b_files = 0
    /\ b_fileIdx = 0
    /\ b_rowsRead = 0
    /\ b_totalRows = 0
    /\ b_one = NewRun
    /\ b_bulk = NewRun

NoResult == [kind |-> "none", error |-> "none", docs |-> <<>>]

\* No command is modelled: index_data alone (the index was created at l.291).
QueryIdle ==
    /\ program = "none"
    /\ qpc = "idle"
    /\ index_present = TRUE
    /\ searcher = <<>>
    /\ num_docs = -1
    /\ scores = <<>>
    /\ q_limit = 0
    /\ q_fail = "none"
    /\ q_result = NoResult

AuxIdle == MapIdle /\ BatchIdle /\ QueryIdle

\* index_data is entered with the Result of index.writer(50_000_000).
IngestInit ==
    /\ index_writer \in {"Ok", "Err"}
    /\ pc = "start"
    /\ files = 0
    /\ fileIdx = 0
    /\ counter = 0
    /\ exception_counter = 0
    /\ pending = <<>>
    /\ store = <<>>
    /\ report = NoReport
    /\ rowsRead = 0
    /\ totalRows = 0
    /\ parseFails = 0
    /\ commitFails = 0
    /\ commits = 0
    /\ added = 0
    /\ processed = 0
    /\ failedDocs = {}
    /\ sinceCommit = 0
    /\ openFails = 0
    /\ lastStep = "Init"
    /\ lastCommit = "none"

Init == IngestInit /\ AuxIdle

\* let files = find_files(files_path, pattern).unwrap(); (l.112, l.80-86)
Discover ==
    /\ UNCHANGED aux
    /\ pc = "start"
    /\ \E n \in 0..MaxFiles : files' = n
    /\ pc' = "files"
    /\ lastStep' = "Discover"
    /\ lastCommit' = "none"
    /\ UNCHANGED <<index_writer, fileIdx, counter, exception_counter, pending,
                   store, report, rowsRead, totalRows, parseFails, commitFails,
                   commits, added, processed, failedDocs, sinceCommit, openFails>>

\* find_files returned Err (bad pattern, unreadable entry): unwrap panics.
DiscoverPanic ==
    /\ UNCHANGED aux
    /\ pc = "start"
    /\ pc' = "panic"
    /\ lastStep' = "DiscoverPanic"
    /\ lastCommit' = "none"
    /\ UNCHANGED <<index_writer, files, fileIdx, counter, exception_counter,
                   pending, store, report, rowsRead, totalRows, parseFails,
                   commitFails, commits, added, processed, failedDocs,
                   sinceCommit, openFails>>

\* File::open fails: println and continue (l.117-123).
OpenFail_Abort ==
    /\ UNCHANGED aux
    /\ pc = "files"
    /\ fileIdx < files
    /\ fileIdx' = fileIdx + 1
    /\ openFails' = openFails + 1
    /\ pc' = "failed"
    /\ lastStep' = "OpenFail"
    /\ lastCommit' = "none"
    /\ UNCHANGED <<index_writer, files, counter, exception_counter, pending,
                   store, report, rowsRead, totalRows, parseFails, commitFails,
                   commits, added, processed, failedDocs, sinceCommit>>
OpenFail ==
    /\ UNCHANGED aux
    /\ pc = "files"
    /\ fileIdx < files
    /\ fileIdx' = fileIdx + 1
    /\ openFails' = openFails + 1
    /\ lastStep' = "OpenFail"
    /\ lastCommit' = "none"
    /\ UNCHANGED <<index_writer, pc, files, counter, exception_counter, pending,
                   store, report, rowsRead, totalRows, parseFails, commitFails,
                   commits, added, processed, failedDocs, sinceCommit>>

OpenOk_KeepsCounters ==
    /\ UNCHANGED aux
    /\ pc = "files"
    /\ fileIdx < files
    /\ fileIdx' = fileIdx + 1
    /\ pc' = "rows"
    /\ rowsRead' = 0
    /\ parseFails' = 0
    /\ commitFails' = 0
    /\ commits' = 0
    /\ added' = 0
    /\ lastStep' = "OpenOk"
    /\ lastCommit' = "none"
    /\ UNCHANGED <<index_writer, files, counter, exception_counter, pending,
                   store, report, totalRows, processed, failedDocs,
                   sinceCommit, openFails>>

\* File::open succeeds: the reader is built and both counters start at 0
\* (l.117-129).
OpenOk ==
    /\ UNCHANGED aux
    /\ pc = "files"
    /\ fileIdx < files
    /\ fileIdx' = fileIdx + 1
    /\ counter' = 0
    /\ exception_counter' = 0
    /\ pc' = "rows"
    /\ rowsRead' = 0
    /\ parseFails' = 0
    /\ commitFails' = 0
    /\ commits' = 0
    /\ added' = 0
    /\ lastStep' = "OpenOk"
    /\ lastCommit' = "none"
    /\ UNCHANGED <<index_writer, files, pending, store, report, totalRows,
                   processed, failedDocs, sinceCommit, openFails>>

\* reader.records() yields Err: println, exception_counter += 1, continue
\* (l.133-139).
RowParseError_Counted ==
    /\ UNCHANGED aux
    /\ pc = "rows"
    /\ totalRows < MaxRows
    /\ exception_counter' = exception_counter + 1
    /\ counter' = counter + 1
    /\ rowsRead' = rowsRead + 1
    /\ totalRows' = totalRows + 1
    /\ parseFails' = parseFails + 1
    /\ lastStep' = "RowParseError"
    /\ lastCommit' = "none"
    /\ UNCHANGED <<index_writer, pc, files, fileIdx, pending, store, report,
                   commitFails, commits, added, processed, failedDocs,
                   sinceCommit, openFails>>
RowParseError ==
    /\ UNCHANGED aux
    /\ pc = "rows"
    /\ totalRows < MaxRows
    /\ exception_counter' = exception_counter + 1
    /\ rowsRead' = rowsRead + 1
    /\ totalRows' = totalRows + 1
    /\ parseFails' = parseFails + 1
    /\ lastStep' = "RowParseError"
    /\ lastCommit' = "none"
    /\ UNCHANGED <<index_writer, pc, files, fileIdx, counter, pending, store,
                   report, commitFails, commits, added, processed, failedDocs,
                   sinceCommit, openFails>>

RowAddFail_Swallowed ==
    /\ UNCHANGED aux
    /\ pc = "rows"
    /\ totalRows < MaxRows
    /\ index_writer = "Ok"
    /\ rowsRead' = rowsRead + 1
    /\ totalRows' = totalRows + 1
    /\ lastStep' = "RowAddFail"
    /\ lastCommit' = "none"
    /\ UNCHANGED <<index_writer, pc, files, fileIdx, counter,
                   exception_counter, pending, store, report, parseFails,
                   commitFails, commits, added, processed, failedDocs,
                   sinceCommit, openFails>>

\* The record is read and mapped, the writer is Ok and add_document fails:
\* the ? returns the error from index_data (l.186-187).
RowAddFail ==
    /\ UNCHANGED aux
    /\ pc = "rows"
    /\ totalRows < MaxRows
    /\ index_writer = "Ok"
    /\ pc' = "failed"
    /\ rowsRead' = rowsRead + 1
    /\ totalRows' = totalRows + 1
    /\ lastStep' = "RowAddFail"
    /\ lastCommit' = "none"
    /\ UNCHANGED <<index_writer, files, fileIdx, counter, exception_counter,
                   pending, store, report, parseFails, commitFails, commits,
                   added, processed, failedDocs, sinceCommit, openFails>>

\* One complete iteration for a record that is read, mapped and passes the add
\* step (l.131-221): the document is added when the writer is Ok (otherwise
\* the error is printed and nothing is added), counter += 1, and at a
\* checkpoint the writer, when Ok, commits; a failed commit adds one to
\* exception_counter and the loop continues.
RowIndexed ==
    /\ UNCHANGED aux
    /\ pc = "rows"
    /\ totalRows < MaxRows
    /\ \E result \in CommitResults :
         LET doc == <<fileIdx, rowsRead + 1>>
             handed == index_writer = "Ok"
             w == IF handed THEN add_document(pending, doc) ELSE pending
             c == counter_increment(counter)
             committing == AtCheckpoint(c) /\ index_writer = "Ok"
             after == IF committing THEN commit(w, store, result)
                      ELSE [pending |-> w, store |-> store]
             failed == committing /\ result # "ok"
         IN  /\ (~committing => result = "ok")
             /\ counter' = c
             /\ pending' = after.pending
             /\ store' = after.store
             /\ exception_counter' =
                    IF failed THEN exception_counter + 1 ELSE exception_counter
             /\ commits' = IF committing THEN commits + 1 ELSE commits
             /\ commitFails' = IF failed THEN commitFails + 1 ELSE commitFails
             /\ failedDocs' = IF failed THEN failedDocs \cup Range(w) ELSE failedDocs
             /\ added' = IF handed THEN added + 1 ELSE added
             /\ sinceCommit' =
                    IF committing /\ result = "ok" THEN 0
                    ELSE IF handed THEN sinceCommit + 1 ELSE sinceCommit
             /\ lastCommit' =
                    IF ~committing THEN "none"
                    ELSE IF result = "ok" THEN "ok" ELSE "failed"
    /\ rowsRead' = rowsRead + 1
    /\ totalRows' = totalRows + 1
    /\ processed' = processed + 1
    /\ lastStep' = "RowIndexed"
    /\ UNCHANGED <<index_writer, pc, files, fileIdx, report, parseFails, openFails>>

\* The reader is exhausted (l.221): the final commit of the file, writer.commit()?
\* when the writer is Ok (l.225-227), then the statistics of the file are
\* computed and printed (l.235-241).  A failed final commit returns the error
\* from index_data before the report.
EndOfFile ==
    /\ UNCHANGED aux
    /\ pc = "rows"
    /\ \E result \in CommitResults :
         LET committing == index_writer = "Ok"
             after == IF committing THEN commit(pending, store, result)
                      ELSE [pending |-> pending, store |-> store]
             failed == committing /\ result # "ok"
         IN  /\ (~committing => result = "ok")
             /\ pending' = after.pending
             /\ store' = after.store
             /\ commits' = IF committing THEN commits + 1 ELSE commits
             /\ commitFails' = IF failed THEN commitFails + 1 ELSE commitFails
             /\ failedDocs' =
                    IF failed THEN failedDocs \cup Range(pending) ELSE failedDocs
             /\ sinceCommit' = IF committing /\ result = "ok" THEN 0 ELSE sinceCommit
             /\ lastCommit' =
                    IF ~committing THEN "none"
                    ELSE IF result = "ok" THEN "ok" ELSE "failed"
             /\ pc' = IF failed THEN "failed" ELSE "files"
             /\ report' =
                    IF failed THEN report
                    ELSE [file |-> fileIdx, processed |-> counter,
                          exceptions |-> exception_counter,
                          percentage |->
                              exception_percentage(exception_counter, counter)]
    /\ lastStep' = "EndOfFile"
    /\ UNCHANGED <<index_writer, files, fileIdx, counter, exception_counter,
                   rowsRead, totalRows, parseFails, added, processed, openFails>>

\* The for loop over the files ends: Ok(()) (l.242-244).
Finish_ErrWhenNothingRead ==
    /\ UNCHANGED aux
    /\ pc = "files"
    /\ fileIdx = files
    /\ pc' = IF totalRows = 0 THEN "failed" ELSE "done"
    /\ lastStep' = "Finish"
    /\ lastCommit' = "none"
    /\ UNCHANGED <<index_writer, files, fileIdx, counter, exception_counter,
                   pending, store, report, rowsRead, totalRows, parseFails,
                   commitFails, commits, added, processed, failedDocs,
                   sinceCommit, openFails>>
Finish ==
    /\ UNCHANGED aux
    /\ pc = "files"
    /\ fileIdx = files
    /\ pc' = "done"
    /\ lastStep' = "Finish"
    /\ lastCommit' = "none"
    /\ UNCHANGED <<index_writer, files, fileIdx, counter, exception_counter,
                   pending, store, report, rowsRead, totalRows, parseFails,
                   commitFails, commits, added, processed, failedDocs,
                   sinceCommit, openFails>>

Next ==
    \/ Discover
    \/ DiscoverPanic
    \/ OpenFail
    \/ OpenOk
    \/ RowParseError
    \/ RowAddFail
    \/ RowIndexed
    \/ EndOfFile
    \/ Finish

Spec == Init /\ [][Next]_vars

(***************************************************************************)
(* Properties of the ingestion run.                                        *)
(***************************************************************************)

\* C1: when a run ends (no add having failed), the number of committed
\* documents equals the number of mapped rows minus the rows whose batch
\* commit failed, and no committed document is in the store twice.
C1_CommittedIsProcessedMinusFailed ==
    (pc \in {"done", "failed"} /\ lastStep # "RowAddFail") =>
        /\ Len(store) = processed - Cardinality(failedDocs)
        /\ \A i, j \in 1..Len(store) : store[i] = store[j] => i = j

\* C2: while a file is ingested, the commits invoked so far are exactly one per
\* multiple of bulk_size reached by the number of documents added from the
\* file; a step that invokes a commit is a row iteration that brought the
\* counter to a multiple of bulk_size, never a row that failed to parse.
C2_CommitExactlyAtCheckpoints ==
    pc = "rows" =>
        /\ commits = added \div bulk_size
        /\ lastCommit # "none" =>
               (lastStep = "RowIndexed" /\ added > 0 /\ added % bulk_size = 0)

\* Two checkpoints of one file were committed, with a row that failed to parse
\* in between.
C2_Witness ==
    /\ pc = "rows"
    /\ commits = 2
    /\ parseFails >= 1
    /\ lastStep = "RowIndexed"
    /\ lastCommit # "none"

\* C3: the step that ends a file issues a commit, and after a successful one
\* no document is left uncommitted in the writer.
C3_FinalCommitIssued ==
    lastStep = "EndOfFile" =>
        /\ lastCommit # "none"
        /\ lastCommit = "ok" => pending = <<>>

\* C4: a failed commit (checkpoint or end of file) never ends the run and is
\* counted in the exception counter of the file.
C4_CommitFailureNotFatal ==
    lastCommit = "failed" =>
        /\ pc # "failed"
        /\ exception_counter = parseFails + commitFails

C7_WriterErrorIsFatal ==
    index_writer = "Err" =>
        /\ totalRows = 0
        /\ processed = 0
        /\ pc # "done"

\* C8 as stated, for a writer that is Ok (every counted row is then a
\* document handed to the writer): the counter is zero when a file starts,
\* equals the number of documents handed to the writer since the last
\* successful commit, and is zero right after a successful commit.
C8_CounterIsSinceLastCommit ==
    (pc = "rows" /\ index_writer = "Ok") =>
        /\ lastStep = "OpenOk" => counter = 0
        /\ counter = sinceCommit
        /\ lastCommit = "ok" => counter = 0

\* C8 amended: the counter is zero when a file starts, counts every row of
\* the file that was read and passed the add step (the documents added, when
\* the writer is Ok) and is not reset by a commit: right after a successful
\* checkpoint commit it is a positive multiple of bulk_size.
C8_CounterIsRowsCountedInFile ==
    pc = "rows" =>
        /\ lastStep = "OpenOk" => counter = 0
        /\ counter = rowsRead - parseFails
        /\ index_writer = "Ok" => counter = added
        /\ lastCommit = "ok" => (counter > 0 /\ counter % bulk_size = 0)

\* A checkpoint commit has just succeeded and the counter still holds the
\* rows of the file.
C8_Witness ==
    /\ pc = "rows"
    /\ lastCommit = "ok"
    /\ counter = bulk_size
    /\ sinceCommit = 0

\* C9: the exception counter of a file is zero when the file starts and
\* equals its rows that failed to parse plus its commits that failed.
C9_ExceptionCounterCountsFailures ==
    /\ lastStep = "OpenOk" => exception_counter = 0
    /\ exception_counter = parseFails + commitFails

\* C10: the percentage reported at the end of a file is
\* 100 * exceptions / processed, and an explicit "undefined" when nothing
\* was processed.
C10_PercentageUndefinedOnZero ==
    (lastStep = "EndOfFile" /\ pc = "files") =>
        report.percentage =
            IF report.processed = 0
            THEN "undefined"
            ELSE [num |-> 100 * report.exceptions, den |-> report.processed]

C19_RunEndsAfterLastFile ==
    (pc \in {"done", "failed"} /\ lastStep # "RowAddFail") => fileIdx = files

\* C20: when discovery returns no file, nothing is read, counted, added or
\* committed, and the only step the run takes is the successful return.
C20_EmptyDiscoveryCompletes ==
    /\ []((files = 0 /\ lastStep \in {"Discover", "Finish"}) =>
             /\ pc \in {"files", "done"}
             /\ totalRows = 0
             /\ processed = 0
             /\ added = 0
             /\ commits = 0
             /\ pending = <<>>
             /\ store = <<>>)
    /\ [][(pc = "files" /\ files = 0) => pc' = "done"]_vars

\* Discovery returned no file and index_data returned Ok(()).
C20_Witness ==
    /\ files = 0
    /\ lastStep = "Finish"
    /\ pc = "done"
    /\ processed = 0

(***************************************************************************)
(* The state of index_data in the specifications below in which it does    *)
(* not run (no writer was created, nothing is read).                       *)
(***************************************************************************)
IngestIdleButStore ==
    /\ index_writer = "none"
    /\ pc = "idle"
    /\ files = 0
    /\ fileIdx = 0
    /\ counter = 0
    /\ exception_counter = 0
    /\ pending = <<>>
    /\ report = NoReport
    /\ rowsRead = 0
    /\ totalRows = 0
    /\ parseFails = 0
    /\ commitFails = 0
    /\ commits = 0
    /\ added = 0
    /\ processed = 0
    /\ failedDocs = {}
    /\ sinceCommit = 0
    /\ openFails = 0
    /\ lastStep = "Init"
    /\ lastCommit = "none"

IngestIdle == IngestIdleButStore /\ store = <<>>

SeqsUpTo(S, n) == UNION {[1..k -> S] : k \in 0..n}

(***************************************************************************)
(* The mapping of a record to a document (main.rs l.142-183), as a         *)
(* function of the record, applied to every record of up to MaxCols cells. *)
(***************************************************************************)
MaxCols == 6

\* Cell values; "NA" can also be a genuine cell.
Cells == {"a", "b", "NA"}

\* create_schema (l.24-57): the four text fields, in the order they are added.
SchemaFields == <<"title", "url", "body", "state">>

\* The column each field is read from: record.get(1), (2), (3), (5)
\* (l.152, l.161, l.170, l.179).
ColumnOf(f) ==
    CASE f = "title" -> 1
      [] f = "url"   -> 2
      [] f = "body"  -> 3
      [] f = "state" -> 5

\* record.get(i).unwrap_or("NA"): columns are numbered from 0.
record_get_OneBased(r, i) == IF i >= 1 /\ i <= Len(r) THEN r[i] ELSE "NA"
record_get(r, i) == IF i < Len(r) THEN r[i + 1] ELSE "NA"

\* l.143-183: Document::default(), then one doc.add_text per field, the value
\* being the cell when schema.get_field(f).is_ok() (always, for the schema of
\* create_schema).
map_record(r) ==
    [k \in 1..Len(SchemaFields) |->
        <<SchemaFields[k], record_get(r, ColumnOf(SchemaFields[k]))>>]

MapInit ==
    /\ IngestIdle
    /\ BatchIdle
    /\ QueryIdle
    /\ mpc = "read"
    /\ record \in SeqsUpTo(Cells, MaxCols)
    /\ document = <<>>

MapRecord ==
    /\ mpc = "read"
    /\ document' = map_record(record)
    /\ mpc' = "mapped"
    /\ UNCHANGED <<record, vars, batchVars, queryVars>>

MapNext == MapRecord

allVars == <<vars, aux>>

SpecMap == MapInit /\ [][MapNext]_allVars

\* C17: the document built from a record of any length holds exactly one
\* value for each of title, url, body and state: the cell at column 1, 2, 3
\* and 5 when the record has that column, "NA" otherwise.
C17_OneValuePerField ==
    mpc = "mapped" =>
        \A f \in {"title", "url", "body", "state"} :
            LET at == {k \in 1..Len(document) : document[k][1] = f}
                col == CASE f = "title" -> 2 [] f = "url" -> 3
                         [] f = "body" -> 4 [] f = "state" -> 6
            IN  /\ Cardinality(at) = 1
                /\ \A k \in at :
                       document[k][2] =
                           IF Len(record) >= col THEN record[col] ELSE "NA"

\* A short record (three cells) was mapped: title and url come from the
\* record, body and state are the placeholder.
C17_Witness ==
    /\ mpc = "mapped"
    /\ Len(record) = 3
    /\ record[2] = "a"
    /\ record[3] = "b"
    /\ document = << <<"title", "a">>, <<"url", "b">>, <<"body", "NA">>,
                     <<"state", "NA">> >>

(***************************************************************************)
(* The batch size as a parameter.  index_data fixes bulk_size (l.108); to  *)
(* compare batch sizes, the steps of its loops are written as functions of *)
(* the run's state (counter, exception_counter, the writer's uncommitted   *)
(* documents, the store) and of the batch size b, and two runs, b = 1 and  *)
(* b = bulk_size, are driven by the same input: the same files, the same   *)
(* rows, the same rows failing to parse.  The writer is Ok and no add and  *)
(* no commit fails.                                                        *)
(***************************************************************************)

\* let mut counter: i32 = 0; let mut exception_counter: i32 = 0; (l.126-127)
run_open(st) == [st EXCEPT !.counter = 0, !.exception_counter = 0]

\* exception_counter += 1; continue (l.135-139)
run_parse_error(st) == [st EXCEPT !.exception_counter = @ + 1]

\* add_document, counter += 1, commit if counter % b == 0 (l.186-212)
run_row(st, d, b) ==
    LET w == add_document(st.pending, d)
        c == counter_increment(st.counter)
        after == IF c % b = 0 THEN commit(w, st.store, "ok")
                 ELSE [pending |-> w, store |-> st.store]
    IN  [st EXCEPT !.counter = c, !.pending = after.pending,
                   !.store = after.store]

\* Commit any remaining changes (l.223-227)
run_end_of_file_NoCommit(st) == st
run_end_of_file(st) ==
    LET after == commit(st.pending, st.store, "ok")
    IN  [st EXCEPT !.pending = after.pending, !.store = after.store]

BatchInit ==
    /\ IngestIdle
    /\ MapIdle
    /\ QueryIdle
    /\ bpc = "files"
    /\ b_files \in 0..MaxFiles
    /\ b_fileIdx = 0
    /\ b_rowsRead = 0
    /\ b_totalRows = 0
    /\ b_one = NewRun
    /\ b_bulk = NewRun

\* File::open fails in both runs (l.117-123).
BatchOpenFail ==
    /\ bpc = "files"
    /\ b_fileIdx < b_files
    /\ b_fileIdx' = b_fileIdx + 1
    /\ UNCHANGED <<bpc, b_files, b_rowsRead, b_totalRows, b_one, b_bulk>>
    /\ UNCHANGED <<vars, mapVars, queryVars>>

\* File::open succeeds in both runs (l.117-129).
BatchOpenOk ==
    /\ bpc = "files"
    /\ b_fileIdx < b_files
    /\ b_fileIdx' = b_fileIdx + 1
    /\ b_rowsRead' = 0
    /\ b_one' = run_open(b_one)
    /\ b_bulk' = run_open(b_bulk)
    /\ bpc' = "rows"
    /\ UNCHANGED <<b_files, b_totalRows>>
    /\ UNCHANGED <<vars, mapVars, queryVars>>

\* The next row fails to parse in both runs (l.133-139).
BatchRowParseError ==
    /\ bpc = "rows"
    /\ b_totalRows < MaxRows
    /\ b_rowsRead' = b_rowsRead + 1
    /\ b_totalRows' = b_totalRows + 1
    /\ b_one' = run_parse_error(b_one)
    /\ b_bulk' = run_parse_error(b_bulk)
    /\ UNCHANGED <<bpc, b_files, b_fileIdx>>
    /\ UNCHANGED <<vars, mapVars, queryVars>>

\* The next row is read, mapped and indexed in both runs (l.131-221).
BatchRowIndexed ==
    /\ bpc = "rows"
    /\ b_totalRows < MaxRows
    /\ b_rowsRead' = b_rowsRead + 1
    /\ b_totalRows' = b_totalRows + 1
    /\ b_one' = run_row(b_one, <<b_fileIdx, b_rowsRead + 1>>, 1)
    /\ b_bulk' = run_row(b_bulk, <<b_fileIdx, b_rowsRead + 1>>, bulk_size)
    /\ UNCHANGED <<bpc, b_files, b_fileIdx>>
    /\ UNCHANGED <<vars, mapVars, queryVars>>

\* The file ends in both runs: the final commit (l.223-227).
BatchEndOfFile ==
    /\ bpc = "rows"
    /\ b_one' = run_end_of_file(b_one)
    /\ b_bulk' = run_end_of_file(b_bulk)
    /\ bpc' = "files"
    /\ UNCHANGED <<b_files, b_fileIdx, b_rowsRead, b_totalRows>>
    /\ UNCHANGED <<vars, mapVars, queryVars>>

\* Both runs return Ok(()) (l.244).
BatchFinish ==
    /\ bpc = "files"
    /\ b_fileIdx = b_files
    /\ bpc' = "done"
    /\ UNCHANGED <<b_files, b_fileIdx, b_rowsRead, b_totalRows, b_one, b_bulk>>
    /\ UNCHANGED <<vars, mapVars, queryVars>>

BatchNext ==
    \/ BatchOpenFail
    \/ BatchOpenOk
    \/ BatchRowParseError
    \/ BatchRowIndexed
    \/ BatchEndOfFile
    \/ BatchFinish

SpecBatch == BatchInit /\ [][BatchNext]_allVars

\* C12: for the same input, with no add and no commit failing, the run with
\* batch size 1 and the run with batch size bulk_size end with the same
\* committed documents, in the same number, and nothing left in the writer.
C12_BatchSizeDoesNotChangeStore ==
    bpc = "done" =>
        /\ Range(b_one.store) = Range(b_bulk.store)
        /\ Len(b_one.store) = Len(b_bulk.store)
        /\ b_one.pending = <<>>
        /\ b_bulk.pending = <<>>

\* Both runs ended over two files; the second file had a row that failed to
\* parse and left a partial batch to the final commit.
C12_Witness ==
    /\ bpc = "done"
    /\ b_files = 2
    /\ Len(b_bulk.store) = bulk_size + 1
    /\ b_bulk.exception_counter >= 1
    /\ b_bulk.counter % bulk_size # 0

\* ---------------------------------------------------------------------
\* The commands and the read side of the index.
\*   main.rs l.277-314 ("build") and main_query_index.rs l.116-164
\*   ("query"): the existence check, the branch, count, size and query.
\* ---------------------------------------------------------------------
MaxDocs == 3
MaxScore == 2
MaxLimit == 2

Min(x, y) == IF x <= y THEN x ELSE y

\* The steps of query_index that can fail, in the order of the code.
QueryFailures == {"none", "reader", "field", "parse", "search", "fetch"}

Ok(ds) == [kind |-> "Ok", error |-> "none", docs |-> ds]
Err(e) == [kind |-> "Err", error |-> e, docs |-> <<>>]
Panic == [kind |-> "Panic", error |-> "none", docs |-> <<>>]

\* One hit enters the collector: after every hit whose score is not lower
\* (equal scores keep document order), then the collector keeps `limit` hits.
collect_hit(top, sc, i, limit) ==
    LET k == Cardinality({j \in 1..Len(top) : sc[top[j]] >= sc[i]})
        ins == SubSeq(top, 1, k) \o <<i>> \o SubSeq(top, k + 1, Len(top))
    IN  SubSeq(ins, 1, Min(limit, Len(ins)))

\* searcher.search(&query, &TopDocs::with_limit(limit)): every document of
\* the snapshot is scored, the matching ones (score > 0) are collected.
RECURSIVE top_docs(_, _, _, _)
top_docs(sc, limit, i, top) ==
    IF i > Len(sc) THEN top
    ELSE top_docs(sc, limit, i + 1,
                  IF sc[i] > 0 THEN collect_hit(top, sc, i, limit) ELSE top)

retrieve_docs_Reversed(snap, top) ==
    [k \in 1..Len(top) |-> snap[top[Len(top) + 1 - k]]]

\* The loop of l.83-89: each hit is fetched and pushed, in the hits' order.
retrieve_docs(snap, top) == [k \in 1..Len(top) |-> snap[top[k]]]

query_index_ParseErrorAsEmpty(snap, sc, limit, fail) ==
    IF fail = "reader" THEN Err("reader")
    ELSE IF fail = "field" THEN Panic
    ELSE IF fail = "parse" THEN Ok(<<>>)
    ELSE IF limit = 0 THEN Panic
    ELSE IF fail = "search" THEN Err("search")
    ELSE LET top == top_docs(sc, limit, 1, <<>>)
         IN  IF fail = "fetch" /\ top # <<>> THEN Err("fetch")
             ELSE Ok(retrieve_docs(snap, top))

\* query_index (main_query_index.rs l.56-92), its steps in order: the reader
\* (`?`), the three fields (unwrap), parse_query (`?`), TopDocs::with_limit
\* (the engine asserts limit >= 1), search (`?`), the fetch of each hit (`?`).
query_index(snap, sc, limit, fail) ==
    IF fail = "reader" THEN Err("reader")
    ELSE IF fail = "field" THEN Panic
    ELSE IF fail = "parse" THEN Err("parse")
    ELSE IF limit = 0 THEN Panic
    ELSE IF fail = "search" THEN Err("search")
    ELSE LET top == top_docs(sc, limit, 1, <<>>)
         IN  IF fail = "fetch" /\ top # <<>> THEN Err("fetch")
             ELSE Ok(retrieve_docs(snap, top))

\* The state of a command at the start of main: an index may exist at the
\* path, holding some committed documents, each with its score for the query.
QueryInit ==
    /\ IngestIdleButStore
    /\ MapIdle
    /\ BatchIdle
    /\ program \in {"build", "query"}
    /\ qpc = "start"
    /\ index_present \in BOOLEAN
    /\ \E n \in 0..MaxDocs :
          /\ store = [k \in 1..n |-> <<1, k>>]
          /\ scores \in [1..n -> 0..MaxScore]
          /\ index_present \/ n = 0
    /\ searcher = <<>>
    /\ num_docs = -1
    /\ q_limit = 0
    /\ q_fail = "none"
    /\ q_result = NoResult

\* index_exists(index_path) is true: the reporting branch.
Q_Exists ==
    /\ qpc = "start"
    /\ index_present
    /\ qpc' = "count"
    /\ UNCHANGED <<program, index_present, searcher, num_docs, scores,
                   q_limit, q_fail, q_result>>
    /\ UNCHANGED <<vars, mapVars, batchVars>>

\* main_query_index.rs l.161-163: no index, the command prints and ends.
Q_Absent ==
    /\ qpc = "start"
    /\ ~index_present
    /\ program = "query"
    /\ qpc' = "end"
    /\ UNCHANGED <<program, index_present, searcher, num_docs, scores,
                   q_limit, q_fail, q_result>>
    /\ UNCHANGED <<vars, mapVars, batchVars>>

MainCreate_IgnoresExisting ==
    /\ qpc = "start"
    /\ program = "build"
    /\ \/ /\ index_present' = TRUE
          /\ index_writer' \in {"Ok", "Err"}
          /\ pc' = "start"
          /\ qpc' = "indexing"
       \/ /\ qpc' = "panic"
          /\ UNCHANGED <<index_present, index_writer, pc>>
    /\ UNCHANGED <<program, searcher, num_docs, scores,
                   q_limit, q_fail, q_result>>
    /\ UNCHANGED <<files, fileIdx, counter, exception_counter, pending,
                   store, report, rowsRead, totalRows, parseFails,
                   commitFails, commits, added, processed, failedDocs,
                   sinceCommit, openFails, lastStep, lastCommit>>
    /\ UNCHANGED <<mapVars, batchVars>>

\* main.rs l.286-299: no index, so the schema and the index are created
\* (expect: a failure panics), the writer is requested and its Result is
\* handed to index_data.
MainCreate ==
    /\ qpc = "start"
    /\ ~index_present
    /\ program = "build"
    /\ \/ /\ index_present' = TRUE
          /\ index_writer' \in {"Ok", "Err"}
          /\ pc' = "start"
          /\ qpc' = "indexing"
       \/ /\ qpc' = "panic"
          /\ UNCHANGED <<index_present, index_writer, pc>>
    /\ UNCHANGED <<program, searcher, num_docs, scores,
                   q_limit, q_fail, q_result>>
    /\ UNCHANGED <<files, fileIdx, counter, exception_counter, pending,
                   store, report, rowsRead, totalRows, parseFails,
                   commitFails, commits, added, processed, failedDocs,
                   sinceCommit, openFails, lastStep, lastCommit>>
    /\ UNCHANGED <<mapVars, batchVars>>

\* main.rs l.299-307: index_data has returned (Ok or Err, both are printed).
MainIndexed ==
    /\ qpc = "indexing"
    /\ pc \in {"done", "failed"}
    /\ qpc' = "count"
    /\ UNCHANGED <<program, index_present, searcher, num_docs, scores,
                   q_limit, q_fail, q_result>>
    /\ UNCHANGED <<vars, mapVars, batchVars>>

Q_CountAcquire_SeesPending ==
    /\ qpc = "count"
    /\ searcher' = store \o pending
    /\ qpc' = "numdocs"
    /\ UNCHANGED <<program, index_present, num_docs, scores,
                   q_limit, q_fail, q_result>>
    /\ UNCHANGED <<vars, mapVars, batchVars>>

\* count_documents_in_index: Index::open_in_dir, index.reader() and
\* reader.searcher(): the searcher holds the segments committed so far.
Q_CountAcquire ==
    /\ qpc = "count"
    /\ searcher' = store
    /\ qpc' = "numdocs"
    /\ UNCHANGED <<program, index_present, num_docs, scores,
                   q_limit, q_fail, q_result>>
    /\ UNCHANGED <<vars, mapVars, batchVars>>

\* The index cannot be opened or read: main.rs unwraps (panic),
\* main_query_index.rs returns Err and main skips the print (if let Ok).
Q_CountFail ==
    /\ qpc = "count"
    /\ qpc' = IF program = "build" THEN "panic" ELSE "size"
    /\ UNCHANGED <<program, index_present, searcher, num_docs, scores,
                   q_limit, q_fail, q_result>>
    /\ UNCHANGED <<vars, mapVars, batchVars>>

\* searcher.num_docs(): the documents of the searcher acquired before.
Q_NumDocs ==
    /\ qpc = "numdocs"
    /\ num_docs' = Len(searcher)
    /\ qpc' = "size"
    /\ UNCHANGED <<program, index_present, searcher, scores,
                   q_limit, q_fail, q_result>>
    /\ UNCHANGED <<vars, mapVars, batchVars>>

\* get_index_size reads the metadata of the directory.  main.rs unwraps
\* (a failure panics) and ends here; main_query_index.rs skips the print on
\* Err and goes on to read the index.
Q_Size ==
    /\ qpc = "size"
    /\ \E ok \in BOOLEAN :
          qpc' = IF program = "query" THEN "read"
                 ELSE IF ok THEN "end" ELSE "panic"
    /\ UNCHANGED <<program, index_present, searcher, num_docs, scores,
                   q_limit, q_fail, q_result>>
    /\ UNCHANGED <<vars, mapVars, batchVars>>

\* read_index (Index::open_in_dir): Ok goes on to the query, Err is printed.
Q_ReadIndex ==
    /\ qpc = "read"
    /\ \E ok \in BOOLEAN : qpc' = IF ok THEN "query" ELSE "end"
    /\ UNCHANGED <<program, index_present, searcher, num_docs, scores,
                   q_limit, q_fail, q_result>>
    /\ UNCHANGED <<vars, mapVars, batchVars>>

\* query_index(&index, query, limit) and the match on its result.
Q_Query ==
    /\ qpc = "query"
    /\ \E limit \in 0..MaxLimit, fail \in QueryFailures :
          /\ q_limit' = limit
          /\ q_fail' = fail
          /\ searcher' = IF fail = "reader" THEN searcher ELSE store
          /\ q_result' = query_index(store, scores, limit, fail)
          /\ qpc' = IF q_result'.kind = "Panic" THEN "panic" ELSE "end"
    /\ UNCHANGED <<program, index_present, num_docs, scores>>
    /\ UNCHANGED <<vars, mapVars, batchVars>>

QueryNext ==
    \/ Q_Exists
    \/ Q_Absent
    \/ MainCreate
    \/ MainIndexed
    \/ Q_CountAcquire
    \/ Q_CountFail
    \/ Q_NumDocs
    \/ Q_Size
    \/ Q_ReadIndex
    \/ Q_Query
    \/ Next

SpecQuery == QueryInit /\ [][QueryNext]_allVars

\* ---------------------------------------------------------------------
\* A reader beside a running ingestion: main_query_index.rs counts the
\* documents of the index that main.rs is building.
\* ---------------------------------------------------------------------
ReaderInit ==
    /\ IngestInit
    /\ MapIdle
    /\ BatchIdle
    /\ program = "query"
    /\ qpc = "count"
    /\ index_present = TRUE
    /\ searcher = <<>>
    /\ num_docs = -1
    /\ scores = <<>>
    /\ q_limit = 0
    /\ q_fail = "none"
    /\ q_result = NoResult

ReaderNext ==
    \/ Next
    \/ Q_CountAcquire
    \/ Q_CountFail
    \/ Q_NumDocs

SpecReader == ReaderInit /\ [][ReaderNext]_allVars

IsPrefix(s, t) == Len(s) <= Len(t) /\ SubSeq(t, 1, Len(s)) = s

Matching == {i \in 1..Len(store) : scores[i] > 0}

\* The score of a committed document.
ScoreOf(d) == scores[CHOOSE i \in 1..Len(store) : store[i] = d]

\* C14: for every query and every positive limit, a successful search returns
\* min(limit, number of matching committed documents) documents, each a
\* different matching committed document, in order of non-increasing score,
\* and no matching document left out has a higher score than a returned one.
C14_TopResultsByScore ==
    (q_result.kind = "Ok" /\ q_limit > 0) =>
        LET ds == q_result.docs
        IN  /\ Len(ds) = Min(q_limit, Cardinality(Matching))
            /\ Cardinality(Range(ds)) = Len(ds)
            /\ \A k \in 1..Len(ds) :
                  \E i \in Matching : store[i] = ds[k]
            /\ \A k \in 1..(Len(ds) - 1) : ScoreOf(ds[k]) >= ScoreOf(ds[k + 1])
            /\ \A i \in Matching :
                  store[i] \notin Range(ds) =>
                      \A k \in 1..Len(ds) : ScoreOf(ds[k]) >= scores[i]

\* A search that reordered the documents and left a matching one out.
C14_Witness ==
    /\ q_result.kind = "Ok"
    /\ q_limit = 2
    /\ Len(q_result.docs) = 2
    /\ Cardinality(Matching) > 2
    /\ ScoreOf(q_result.docs[1]) > ScoreOf(q_result.docs[2])
    /\ q_result.docs[1] # store[1]

\* C15: query_index called with limit 0 returns the InvalidLimit error as an
\* error value.  (limit is a usize, so it is never negative.)
C15_ZeroLimitIsInvalidLimit ==
    (q_result.kind # "none" /\ q_limit = 0) =>
        (q_result.kind = "Err" /\ q_result.error = "InvalidLimit")

\* C16: a query whose reader, parse, search or fetch step fails returns Err
\* carrying that step's error and no list; an Err always carries the error of
\* the step that failed; an empty list is returned only when every step
\* succeeded and no committed document matches.
C16_FailureIsErrNeverEmpty ==
    /\ q_fail \in {"reader", "parse"} =>
          (q_result.kind = "Err" /\ q_result.error = q_fail)
    /\ (q_fail = "search" /\ q_limit > 0) =>
          (q_result.kind = "Err" /\ q_result.error = q_fail)
    /\ (q_fail = "fetch" /\ q_limit > 0 /\ Matching # {}) =>
          (q_result.kind = "Err" /\ q_result.error = q_fail)
    /\ q_result.kind = "Err" =>
          (q_result.error = q_fail /\ q_result.docs = <<>>)
    /\ (q_result.kind = "Ok" /\ q_result.docs = <<>>) =>
          (Matching = {} /\ q_fail \in {"none", "fetch"} /\ q_limit > 0)

\* An unparsable query over a store that holds matching documents.
C16_Witness ==
    /\ qpc = "end"
    /\ q_fail = "parse"
    /\ q_result.kind = "Err"
    /\ Matching # {}
    /\ q_limit > 0

\* C18: when an index exists at the path, no step of the command (existence
\* check, count, size, read, query) creates a writer, starts index_data, adds
\* or commits a document, or changes the committed documents.
C18_ExistingStoreOnlyReported ==
    /\ []((index_present /\ pc = "idle") => index_writer = "none")
    /\ [][(index_present /\ pc = "idle") =>
            /\ pc' = "idle"
            /\ index_present'
            /\ index_writer' = index_writer
            /\ store' = store
            /\ pending' = pending
            /\ added' = added
            /\ commits' = commits]_allVars

\* The command found an index with documents; it counted and queried it.
C18_Witness ==
    /\ qpc = "end"
    /\ program = "query"
    /\ pc = "idle"
    /\ Len(store) > 0
    /\ num_docs = Len(store)
    /\ q_result.kind = "Ok"
    /\ q_result.docs # <<>>

\* C21: when add_document fails, index_data returns the error at once: the
\* failing step adds, counts and commits nothing, and from then on no row and
\* no file is processed and no commit is issued, so the documents added since
\* the last successful commit are not in the store, whatever main does next.
C21_AddFailureEndsTheRun ==
    /\ [](lastStep = "RowAddFail" =>
            /\ pc = "failed"
            /\ Range(pending) \cap Range(store) = {}
            /\ Len(pending) <= sinceCommit)
    /\ [][lastStep' = "RowAddFail" =>
            /\ lastStep' = lastStep \/ rowsRead' = rowsRead + 1
            /\ <<store, pending, commits, counter, processed, added,
                 sinceCommit, fileIdx, report>>' =
               <<store, pending, commits, counter, processed, added,
                 sinceCommit, fileIdx, report>>]_allVars
    /\ [][lastStep = "RowAddFail" => UNCHANGED vars]_allVars

\* The add failed with documents pending after a successful checkpoint commit
\* and files left, and main went on to count the index.
C21_Witness ==
    /\ lastStep = "RowAddFail"
    /\ qpc = "end"
    /\ store # <<>>
    /\ pending # <<>>
    /\ fileIdx < files
    /\ num_docs = Len(store)

\* C22: while a file is being ingested, counter plus the rows that failed to
\* parse is the number of rows consumed from the file, and the processed count
\* reported at end of file is the rows consumed minus the failed ones.
C22_CounterPlusParseFailsIsRowsRead ==
    /\ pc = "rows" => counter + parseFails = rowsRead
    /\ (lastStep = "EndOfFile" /\ pc = "files") =>
          (report.processed = rowsRead - parseFails /\ report.file = fileIdx)

\* The second file is reported with rows of both kinds.
C22_Witness ==
    /\ lastStep = "EndOfFile"
    /\ pc = "files"
    /\ fileIdx = 2
    /\ parseFails >= 1
    /\ report.processed >= 1
    /\ processed > report.processed

====
